---- MODULE Spec2Model ----
(***************************************************************************)
(* Model of src/names.rs of rust-onig: the iterator `Names` that walks the *)
(* name table (an st hash table) of a compiled Oniguruma pattern, and the  *)
(* count accessor `names_len`.                                             *)
(*                                                                         *)
(* The foreign memory (table, bucket array, entries, name records, the     *)
(* byte and integer heaps) is drawn in Init and is read through the        *)
(* pointer operations of the code.  Each iterator is a cursor              *)
(* (table, bin_idx, entry_ptr).  History variables record what each        *)
(* iterator returned and which foreign locations it dereferenced.          *)
(***************************************************************************)
EXTENDS Integers, Sequences, FiniteSets, TLC

\* ------------------------------------------------------------- bounds
MaxBins == 3
MaxEntries == 2
MaxBackNum == 2
MaxIters == 2

\* ------------------------------------------------------------- pointers
NULL == 0
\* the address of the StTable when the pattern has one
TablePtr == 1
\* the address of the bucket array when the table has one
BinsPtr == 2
\* what a read outside every live object returns when it is used as a pointer
WILD == -1

VARIABLES
    name_table,   \* (*self.raw).name_table: NULL or TablePtr
    table,        \* the StTable at name_table: num_bins, num_entries, the
                  \* pointer bins_ptr and the bucket array bins it points to
    entries,      \* StTableEntry by address: record, next
    records,      \* NameEntry by address: name, name_len, back_num, ...
    heap_i32,     \* the c_int arrays back_refs point into, by address
    iters,        \* the Names values, by slot
    hist,         \* per slot: what the iterator returned and read so far
    len_ret,      \* the last value names_len returned, -1 before any call
    abandoned     \* an iterator was dropped before it had yielded every
                  \* pair, at a moment when no other iterator existed

vars == <<name_table, table, entries, records, heap_i32, iters, hist,
          len_ret, abandoned>>
foreign == <<name_table, table, entries, records, heap_i32>>

Slots == 1..MaxIters

\* ------------------------------------------------------------- layout
\* the record of the entry at address e lives at RecOf(e)
RecOf(e) == 100 + e
\* name bytes: record r owns the 4-byte slot at NamePtr(r), NUL padded
NamePtr(e) == 4 * e + 1
NameLenOf(e) == 1 + (e % 3)
NameHeap(a) ==
    LET e == (a - 1) \div 4
        k == ((a - 1) % 4) + 1
    IN  IF e >= 1 /\ k <= NameLenOf(e) THEN 96 + e ELSE 0
\* back_refs arrays: entry e owns MaxBackNum + 2 c_ints at RefsPtr(e)
RefsPtr(e) == (MaxBackNum + 2) * e
\* the j-th capture group labelled by the name of entry e
GroupOf(e, j) == e + 10 * (j - 1)

\* std::slice::from_raw_parts(ptr, len): the addresses of the slice's elements
from_raw_parts(ptr, len) == [k \in 1..len |-> ptr + k - 1]

HeapI32At(a) == IF a \in DOMAIN heap_i32 THEN heap_i32[a] ELSE WILD

\* ------------------------------------------------------------- tables
\* the addresses 1..n in the order the chains visit them: the allocator
\* handed them out in chain order, or against it
Orders(n) == {[k \in 1..n |-> k], [k \in 1..n |-> n + 1 - k]}

\* the entries of a table whose k-th entry in chain order has address
\* order[k] and sits in bucket binOf[k], with bn[k] capture groups
MkEntries(order, binOf) ==
    [e \in {order[k] : k \in 1..Len(order)} |->
        LET k == CHOOSE k \in 1..Len(order) : order[k] = e
        IN  [record |-> RecOf(e),
             next   |-> IF k < Len(order) /\ binOf[k + 1] = binOf[k]
                        THEN order[k + 1] ELSE NULL]]

MkBins(nb, order, binOf) ==
    [b \in 0..(nb - 1) |->
        IF \E k \in 1..Len(order) : binOf[k] = b
        THEN order[CHOOSE k \in 1..Len(order) :
                      /\ binOf[k] = b
                      /\ \A j \in 1..(k - 1) : binOf[j] # b]
        ELSE NULL]

MkRecords(order, bn) ==
    [r \in {RecOf(order[k]) : k \in 1..Len(order)} |->
        LET k == CHOOSE k \in 1..Len(order) : RecOf(order[k]) = r
            e == order[k]
        IN  [name       |-> NamePtr(e),
             name_len   |-> NameLenOf(e),
             back_num   |-> bn[k],
             back_alloc |-> IF bn[k] > 1 THEN MaxBackNum + 2 ELSE 0,
             back_ref1  |-> GroupOf(e, 1),
             back_refs  |-> IF bn[k] > 1 THEN RefsPtr(e) ELSE NULL]]

MkHeap(order, bn) ==
    [a \in UNION {IF bn[k] > 1
                  THEN RefsPtr(order[k])..(RefsPtr(order[k]) + MaxBackNum + 1)
                  ELSE {} : k \in 1..Len(order)} |->
        LET k == CHOOSE k \in 1..Len(order) :
                    a \in RefsPtr(order[k])..(RefsPtr(order[k]) + MaxBackNum + 1)
            j == a - RefsPtr(order[k]) + 1
        IN  IF j <= bn[k] THEN GroupOf(order[k], j) ELSE 0]

NoIter == [live |-> FALSE, table |-> NULL, bin_idx |-> -1, entry_ptr |-> NULL]
NoHist == [out |-> <<>>, ret |-> "fresh", reads |-> {}, ub |-> FALSE]

\* the foreign memory of a compiled pattern.  Every name labels one
\* capture group, except at most one name, which has a back_num from Multi.
\* num_bins is a c_int the code compares signed: -1 stands for the counts
\* below zero, which only a table without entries can hold
InitForeign(Multi) ==
    \E nt \in {NULL, TablePtr}, nb \in -1..MaxBins, n \in 0..MaxEntries :
    \E order \in Orders(n), binOf \in [1..n -> 0..(nb - 1)],
       m \in 0..n, c \in Multi :
        LET bn == [k \in 1..n |-> IF k = m THEN c ELSE 1]
        IN  /\ nt = NULL => n = 0
            /\ \A k \in 1..(n - 1) : binOf[k] <= binOf[k + 1]
            /\ name_table = nt
            /\ table = [num_bins    |-> nb,
                        num_entries |-> n,
                        bins_ptr    |-> IF nt = NULL THEN NULL ELSE BinsPtr,
                        bins        |-> MkBins(IF nt = NULL THEN 0 ELSE nb,
                                               order, binOf)]
            /\ entries = MkEntries(order, binOf)
            /\ records = MkRecords(order, bn)
            /\ heap_i32 = MkHeap(order, bn)

Init ==
    /\ InitForeign(2..MaxBackNum)
    /\ iters = [i \in Slots |-> NoIter]
    /\ hist = [i \in Slots |-> NoHist]
    /\ len_ret = -1
    /\ abandoned = FALSE

\* ------------------------------------------------------------- reads
\* (*self.table).num_bins
ReadNumBins(t) == table.num_bins

\* *(*self.table).bins.offset(idx): outside the bucket array the read
\* returns whatever lies there
ReadBin(t, idx) ==
    IF t # NULL /\ table.bins_ptr # NULL /\ idx \in DOMAIN table.bins
    THEN table.bins[idx] ELSE WILD

\* a pointer the code may dereference as an StTableEntry
ValidEntry(p) == p \in DOMAIN entries

\* ------------------------------------------------------------- Names::next
\* reads num_bins without asking whether there is a table
AtEnd_NoNullCheck(it) == (it.bin_idx + 1) >= ReadNumBins(it.table)

\* stops one bucket early
AtEnd_SkipsLast(it) ==
    it.table = NULL \/ (it.bin_idx + 1) >= ReadNumBins(it.table) - 1

\* compares with `>`: lets the index reach the bucket count
AtEnd_ReadsPast(it) ==
    it.table = NULL \/ (it.bin_idx + 1) > ReadNumBins(it.table)

\* the guard of the early return: no table, or no bucket left
AtEnd(it) ==
    it.table = NULL \/ (it.bin_idx + 1) >= ReadNumBins(it.table)

\* walks the bucket array from its last bucket to its first
Advance_Backwards(it) ==
    [it EXCEPT !.bin_idx = (it.bin_idx + 1),
               !.entry_ptr = ReadBin(it.table,
                                     ReadNumBins(it.table) - 1 - (it.bin_idx + 1))]

\* self.bin_idx += 1; self.entry_ptr = bins[self.bin_idx]
Advance(it) ==
    [it EXCEPT !.bin_idx = (it.bin_idx + 1),
               !.entry_ptr = ReadBin(it.table, (it.bin_idx + 1))]

\* the locations one evaluation of the loop guard and body dereferences
LoopReads(it) ==
    (IF it.table = NULL THEN {} ELSE {<<"num_bins", 0>>})
    \cup (IF AtEnd(it) THEN {} ELSE {<<"bins", (it.bin_idx + 1)>>})

RECURSIVE WhileLoop(_, _)
\* looks at one bucket per call: an `if` where the code has `while`
WhileLoop_OneBucket(it, rd) ==
    IF it.entry_ptr # NULL
    THEN [it |-> it, rd |-> rd, end |-> FALSE]
    ELSE IF AtEnd(it)
    THEN [it |-> it, rd |-> rd \cup LoopReads(it), end |-> TRUE]
    ELSE [it  |-> Advance(it),
          rd  |-> rd \cup LoopReads(it),
          end |-> Advance(it).entry_ptr = NULL]

\* takes a pending pointer back to the head of its bucket
WhileLoop_BackToHead(it, rd) ==
    IF it.entry_ptr # NULL
    THEN [it  |-> [it EXCEPT !.entry_ptr = ReadBin(it.table, it.bin_idx)],
          rd  |-> rd \cup {<<"bins", it.bin_idx>>},
          end |-> FALSE]
    ELSE IF AtEnd(it)
    THEN [it |-> it, rd |-> rd \cup LoopReads(it), end |-> TRUE]
    ELSE WhileLoop(Advance(it), rd \cup LoopReads(it))

\* while self.entry_ptr.is_null() { ... }: the cursor when the loop is
\* left, whether it was left by `return None`, and the reads made.
\* bin_idx stays below num_bins, so the c_int sum bin_idx + 1 is exact
WhileLoop(it, rd) ==
    IF it.entry_ptr # NULL
    THEN [it |-> it, rd |-> rd, end |-> FALSE]
    ELSE IF AtEnd(it)
    THEN [it |-> it, rd |-> rd \cup LoopReads(it), end |-> TRUE]
    ELSE WhileLoop(Advance(it), rd \cup LoopReads(it))

\* takes the array also for a name that labels one group
UsesBackRefs_AlsoForOne(rec) == rec.back_num >= 1

\* let groups = if back_num > 1 { back_refs[..back_num] } else { [back_ref1] }
UsesBackRefs(rec) == rec.back_num > 1

DecodeGroups(rec) ==
    IF UsesBackRefs(rec)
    THEN [k \in 1..rec.back_num |->
             HeapI32At(from_raw_parts(rec.back_refs, rec.back_num)[k])]
    ELSE <<rec.back_ref1>>

\* from_utf8_unchecked(from_raw_parts(name, name_len as usize))
DecodeName(rec) ==
    [k \in 1..rec.name_len |-> NameHeap(from_raw_parts(rec.name, rec.name_len)[k])]

DecodeReads(e, rec) ==
    {<<"entry", e>>, <<"name", entries[e].record>>}
    \cup (IF UsesBackRefs(rec)
          THEN {<<"back_refs", entries[e].record>>}
          ELSE {<<"back_ref1", entries[e].record>>})

\* the pair built from the entry at e, with the entry it came from
Decode(e) ==
    LET rec == records[entries[e].record]
    IN  [entry  |-> e,
         name   |-> DecodeName(rec),
         groups |-> DecodeGroups(rec)]

\* forgets to step to the next entry of the chain
Follow_Stays(it) == it

\* self.entry_ptr = (*self.entry_ptr).next
Follow(it) == [it EXCEPT !.entry_ptr = entries[it.entry_ptr].next]

\* the decode of a record is undefined when it reads through a pointer
\* that is null or wild, or reads c_ints outside an allocation
DecodeUB(e) ==
    LET rec == records[entries[e].record]
    IN  UsesBackRefs(rec) /\
        \E k \in 0..(rec.back_num - 1) : (rec.back_refs + k) \notin DOMAIN heap_i32

\* what a call whose behaviour is undefined may hand back
JunkPair == [entry |-> WILD, name |-> <<>>, groups |-> <<>>]

\* rewinds the cursor when the sequence ends
ReturnNone_Rewind(it) == [it EXCEPT !.bin_idx = -1]

\* counts the failed step: the index moves on with every end-of-sequence
ReturnNone_StepsPast(it) == [it EXCEPT !.bin_idx = (it.bin_idx + 1)]

\* `return None` assigns nothing: the cursor stays where the loop left it
ReturnNone(it) == it

\* a consuming traversal: cuts the chain behind the entry it yields
EntriesAfterYield_Unlinks(p) == [entries EXCEPT ![p].next = NULL]

\* the stores a call makes through its *const pointers into the chain whose
\* entry p it decodes: none
EntriesAfterYield(p) == entries

\* keeps one cursor for all the iterators of a pattern
StoreCursor_Shared(i, it) ==
    [j \in Slots |-> IF iters[j].live THEN it ELSE iters[j]]

\* `&mut self`: a call writes the fields of its own Names value only
StoreCursor(i, it) == [iters EXCEPT ![i] = it]

\* fn next(&mut self) -> Option<(&'r str, &'r [i32])>
NextCall(i) ==
    /\ iters[i].live
    /\ LET w == WhileLoop(iters[i], {})
           p == w.it.entry_ptr
       IN  IF w.end
           THEN /\ iters' = StoreCursor(i, ReturnNone(w.it))
                /\ hist' = [hist EXCEPT ![i].ret = "None",
                                        ![i].reads = @ \cup w.rd]
                /\ entries' = entries
           ELSE IF ValidEntry(p) /\ ~DecodeUB(p)
           THEN /\ iters' = StoreCursor(i, Follow(w.it))
                /\ hist' = [hist EXCEPT
                       ![i].ret = "Some",
                       ![i].out = Append(@, Decode(p)),
                       ![i].reads = @ \cup w.rd
                                      \cup DecodeReads(p, records[entries[p].record])]
                /\ entries' = EntriesAfterYield(p)
           ELSE \* undefined behaviour: the call may return anything
                \E some \in BOOLEAN :
                /\ iters' = StoreCursor(i, [w.it EXCEPT !.entry_ptr = NULL])
                /\ hist' = [hist EXCEPT
                       ![i].ret = IF some THEN "Some" ELSE "None",
                       ![i].out = IF some THEN Append(@, JunkPair) ELSE @,
                       ![i].reads = @ \cup w.rd \cup {<<"wild", 0>>}
                                      \cup (IF ValidEntry(p)
                                            THEN DecodeReads(p, records[entries[p].record])
                                            ELSE {}),
                       ![i].ub = TRUE]
                /\ entries' = entries
    /\ UNCHANGED <<name_table, table, records, heap_i32, len_ret, abandoned>>

\* ------------------------------------------------------------- Regex
\* hands out the position of an iterator that is already running
FreshCursor_Resumes ==
    IF \E j \in Slots : iters[j].live
    THEN iters[CHOOSE j \in Slots : iters[j].live]
    ELSE [live |-> TRUE, table |-> name_table, bin_idx |-> -1, entry_ptr |-> NULL]

\* starts at the first bucket instead of before it
FreshCursor_AtZero ==
    [live |-> TRUE, table |-> name_table, bin_idx |-> 0, entry_ptr |-> NULL]

\* Names { table: (*self.raw).name_table, bin_idx: -1, entry_ptr: null() }
FreshCursor ==
    [live |-> TRUE, table |-> name_table, bin_idx |-> -1, entry_ptr |-> NULL]

\* pub fn names(&self) -> Names
NamesCall(i) ==
    /\ ~iters[i].live
    /\ iters' = [iters EXCEPT ![i] = FreshCursor]
    /\ hist' = [hist EXCEPT ![i] = NoHist]
    /\ UNCHANGED <<foreign, len_ret, abandoned>>

\* an iterator goes out of scope; Names has no Drop and owns nothing
DropIter(i) ==
    /\ iters[i].live
    /\ iters' = [iters EXCEPT ![i] = NoIter]
    /\ hist' = [hist EXCEPT ![i] = NoHist]
    /\ abandoned' = (abandoned \/ (/\ Len(hist[i].out) >= 1
                                   /\ Len(hist[i].out) < Cardinality(DOMAIN entries)
                                   /\ \A j \in Slots \ {i} : ~iters[j].live))
    /\ UNCHANGED <<foreign, len_ret>>

\* onig_number_of_names(reg): the number of distinct registered names
onig_number_of_names ==
    IF name_table = NULL THEN 0
    ELSE Cardinality({records[r].name : r \in DOMAIN records})

\* the number of capture groups that carry a name
RECURSIVE SumBackNum(_)
SumBackNum(R) ==
    IF R = {} THEN 0
    ELSE LET r == CHOOSE r \in R : TRUE
         IN  records[r].back_num + SumBackNum(R \ {r})

\* counts the named groups instead of the names
names_len_CountsGroups ==
    IF name_table = NULL THEN 0 ELSE SumBackNum(DOMAIN records)

\* pub fn names_len(&self) -> usize
names_len == onig_number_of_names

NamesLenCall ==
    /\ len_ret' = names_len
    /\ UNCHANGED <<foreign, iters, hist, abandoned>>

Next ==
    \/ \E i \in Slots : NamesCall(i)
    \/ \E i \in Slots : NextCall(i)
    \/ \E i \in Slots : DropIter(i)
    \/ NamesLenCall

Spec == Init /\ [][Next]_vars

\* the same program over foreign memory that breaks the invariant
\* back_num >= 1: one name record may hold back_num = 0
InitMalformed ==
    /\ InitForeign({0})
    /\ iters = [i \in Slots |-> NoIter]
    /\ hist = [i \in Slots |-> NoHist]
    /\ len_ret = -1
    /\ abandoned = FALSE

SpecMalformed == InitMalformed /\ [][Next]_vars

\* the same program over a table without names whose pointer to the
\* bucket array is null, with any bucket count
InitNullBins ==
    /\ \E nb \in -1..MaxBins :
           table = [num_bins |-> nb, num_entries |-> 0,
                    bins_ptr |-> NULL, bins |-> <<>>]
    /\ name_table = TablePtr
    /\ entries = <<>>
    /\ records = <<>>
    /\ heap_i32 = <<>>
    /\ iters = [i \in Slots |-> NoIter]
    /\ hist = [i \in Slots |-> NoHist]
    /\ len_ret = -1
    /\ abandoned = FALSE

SpecNullBins == InitNullBins /\ [][Next]_vars

\* ------------------------------------------------------------- properties
\* the entries a chain holds, from the head p to its tail
RECURSIVE ChainFrom(_)
ChainFrom(p) ==
    IF p = NULL THEN <<>> ELSE <<p>> \o ChainFrom(entries[p].next)

\* the entries reachable from the bucket array
ReachableEntries ==
    IF name_table = NULL THEN {}
    ELSE UNION {{ChainFrom(table.bins[b])[k] :
                    k \in 1..Len(ChainFrom(table.bins[b]))} :
                b \in DOMAIN table.bins}

\* the bucket whose chain holds e, and the place of e on that chain
BucketOf(e) ==
    CHOOSE b \in DOMAIN table.bins :
        \E k \in 1..Len(ChainFrom(table.bins[b])) : ChainFrom(table.bins[b])[k] = e
ChainPos(e) ==
    CHOOSE k \in 1..Len(ChainFrom(table.bins[BucketOf(e)])) :
        ChainFrom(table.bins[BucketOf(e)])[k] = e

\* the entries an iterator has yielded, in the order it yielded them
Yielded(i) == [k \in 1..Len(hist[i].out) |-> hist[i].out[k].entry]
YieldedSet(i) == {hist[i].out[k].entry : k \in 1..Len(hist[i].out)}
Exhausted(i) == iters[i].live /\ hist[i].ret = "None"

\* C1: an iterator never yields an entry twice, and once it has returned
\* end-of-sequence it has yielded every entry reachable from the bucket
\* array exactly once, as many pairs as the table has entries.
C1_ExactlyOnce ==
    \A i \in Slots :
        /\ \A a, b \in 1..Len(hist[i].out) :
               a # b => hist[i].out[a].entry # hist[i].out[b].entry
        /\ YieldedSet(i) \subseteq ReachableEntries
        /\ Exhausted(i) =>
               /\ YieldedSet(i) = ReachableEntries
               /\ Len(hist[i].out) = table.num_entries

\* an exhausted iterator over a table of two entries with an empty bucket
\* in front of them
C1_Witness ==
    \E i \in Slots :
        /\ Exhausted(i)
        /\ Len(hist[i].out) = 2
        /\ table.num_bins = 3
        /\ table.bins[0] = NULL

\* C2: pairs come out in ascending bucket order, and within a bucket in
\* chain order from the head to the tail.
C2_Order ==
    \A i \in Slots : \A a, b \in 1..Len(hist[i].out) :
        a < b =>
            LET ea == hist[i].out[a].entry
                eb == hist[i].out[b].entry
            IN  /\ ea \in ReachableEntries
                /\ eb \in ReachableEntries
                /\ \/ BucketOf(ea) < BucketOf(eb)
                   \/ /\ BucketOf(ea) = BucketOf(eb)
                      /\ ChainPos(ea) < ChainPos(eb)

\* two pairs yielded from one chain whose head lies at the higher address
C2_Witness ==
    \E i \in Slots :
        /\ Len(hist[i].out) = 2
        /\ BucketOf(hist[i].out[1].entry) = BucketOf(hist[i].out[2].entry)
        /\ hist[i].out[1].entry > hist[i].out[2].entry

\* C3: with no name table every next call returns end-of-sequence without
\* reading a bucket, an entry or any other foreign location, nothing
\* faults, and the count of names is 0.
C3_AbsentTable ==
    name_table = NULL =>
        /\ \A i \in Slots :
               /\ hist[i].ret \in {"fresh", "None"}
               /\ hist[i].out = <<>>
               /\ hist[i].reads = {}
               /\ ~hist[i].ub
        /\ len_ret \in {-1, 0}

\* no table, a stale non-zero num_bins where the table would be, two next
\* calls made (the second iterator is still fresh) and the count taken
C3_Witness ==
    /\ name_table = NULL
    /\ table.num_bins > 0
    /\ \E i \in Slots : Exhausted(i)
    /\ len_ret = 0

\* C4: once a next call on an iterator has returned end-of-sequence, every
\* later call on that iterator returns end-of-sequence and yields nothing.
C4_StaysTerminal ==
    [][\A i \in Slots :
          (Exhausted(i) /\ iters'[i].live) =>
              /\ hist'[i].ret = "None"
              /\ hist'[i].out = hist[i].out]_vars

\* an iterator that yielded two pairs and then returned end-of-sequence,
\* over a table that ends in an empty bucket; every further call from here
\* is a step the property constrains
C4_Witness ==
    \E i \in Slots :
        /\ Exhausted(i)
        /\ Len(hist[i].out) = 2
        /\ iters[i].bin_idx = table.num_bins - 1
        /\ table.bins[table.num_bins - 1] = NULL

\* the (name, indices) pairs an iterator has yielded
Pairs(i) ==
    [k \in 1..Len(hist[i].out) |-> <<hist[i].out[k].name, hist[i].out[k].groups>>]

\* C5: any two iterators over the pattern that were run to completion have
\* yielded the same sequence of (name, indices) pairs, in the same order,
\* whatever iterators were created, run or dropped before them.
C5_Idempotent ==
    \A i, j \in Slots :
        (Exhausted(i) /\ Exhausted(j)) => Pairs(i) = Pairs(j)

\* two exhausted iterators with two pairs each, both created after an
\* earlier iterator had been dropped half way
C5_Witness ==
    /\ abandoned
    /\ \A i \in Slots : Exhausted(i) /\ Len(hist[i].out) = 2

\* the entries of the table in bucket order, each chain from head to tail
RECURSIVE TableOrderFrom(_)
TableOrderFrom(b) ==
    IF b \notin DOMAIN table.bins THEN <<>>
    ELSE ChainFrom(table.bins[b]) \o TableOrderFrom(b + 1)
TableOrder == IF name_table = NULL THEN <<>> ELSE TableOrderFrom(0)

IsPrefix(s, t) == Len(s) <= Len(t) /\ \A k \in 1..Len(s) : s[k] = t[k]

\* C6: no step (names(), next, names_len, dropping an iterator at any
\* point) changes the table, the bucket array, an entry, a name record or
\* the index arrays; so every iterator, also one created after another was
\* dropped half way, yields the table's entries from the first one on and
\* has yielded them all when it returns end-of-sequence.
C6_ReadOnly ==
    /\ [][foreign' = foreign]_vars
    /\ [](\A i \in Slots :
             /\ IsPrefix(Yielded(i), TableOrder)
             /\ Exhausted(i) => Yielded(i) = TableOrder)

\* an iterator created after a half-way drop that has yielded both entries
\* of a chain and returned end-of-sequence
C6_Witness ==
    /\ abandoned
    /\ \E i \in Slots :
           /\ Exhausted(i)
           /\ Len(hist[i].out) = 2
           /\ entries[hist[i].out[1].entry].next = hist[i].out[2].entry

\* C7: every yielded pair comes from an entry of the table; its name is the
\* name_len bytes at name; its indices are the first back_num elements of
\* the array at back_refs when back_num > 1, and the one element back_ref1
\* when back_num = 1, and then the array of that record is never read.
C7_Decode ==
    \A i \in Slots :
        /\ \A k \in 1..Len(hist[i].out) :
               LET item == hist[i].out[k]
               IN  /\ item.entry \in DOMAIN entries
                   /\ LET rec == records[entries[item.entry].record]
                      IN  /\ Len(item.name) = rec.name_len
                          /\ \A j \in 1..rec.name_len :
                                 item.name[j] = NameHeap(rec.name + j - 1)
                          /\ rec.back_num > 1 =>
                                 /\ Len(item.groups) = rec.back_num
                                 /\ \A j \in 1..rec.back_num :
                                        item.groups[j] = heap_i32[rec.back_refs + j - 1]
                          /\ rec.back_num = 1 => item.groups = <<rec.back_ref1>>
        /\ \A r \in DOMAIN records :
               records[r].back_num = 1 => <<"back_refs", r>> \notin hist[i].reads

\* a full pass over a name with one group and a name with two: "aa" for
\* group 1, then "bbb" for groups 2 and 12
C7_Witness ==
    \E i \in Slots :
        Pairs(i) = << << <<97, 97>>, <<1>> >>, << <<98, 98, 98>>, <<2, 12>> >> >>

C9_DecodeFault ==
    \A i \in Slots :
        \A k \in 1..Len(hist[i].out) :
            hist[i].out[k].entry \in DOMAIN entries =>
                records[entries[hist[i].out[k].entry].record].back_num # 0

\* the cursor one next call leaves behind, and the cursor of an iterator
\* that ran alone and has yielded k pairs
StepCursor(it) ==
    LET w == WhileLoop(it, {})
    IN  IF w.end THEN ReturnNone(w.it) ELSE Follow(w.it)
RECURSIVE SoloAfter(_)
SoloAfter(k) == IF k = 0 THEN FreshCursor ELSE StepCursor(SoloAfter(k - 1))

\* C10: with several iterators stepped in any interleaving, a step that
\* changes one iterator changes no other, and every iterator stands where
\* it would stand had it run alone: same cursor, same pairs in the same
\* order.  A call holds its iterator by `&mut self` and writes nothing
\* else, so steps of different iterators interleave as whole calls.
C10_Independent ==
    /\ [][\A i, j \in Slots :
             (i # j /\ (iters'[i] # iters[i] \/ hist'[i] # hist[i])) =>
                 (iters'[j] = iters[j] /\ hist'[j] = hist[j])]_vars
    /\ [](\A i \in Slots : iters[i].live =>
             /\ IsPrefix(Yielded(i), TableOrder)
             /\ \A k \in 1..Len(hist[i].out) : hist[i].out[k] = Decode(TableOrder[k])
             /\ iters[i] = IF hist[i].ret = "None"
                           THEN StepCursor(SoloAfter(Len(hist[i].out)))
                           ELSE SoloAfter(Len(hist[i].out)))

\* two iterators over a table of two names at different places: one has
\* yielded the first pair, the other both and end-of-sequence
C10_Witness ==
    \E i, j \in Slots :
        /\ iters[i].live /\ Len(hist[i].out) = 1
        /\ Exhausted(j) /\ Len(hist[j].out) = 2

\* the bucket heads an iterator has read
BinsRead(i) == {r \in hist[i].reads : r[1] = "bins"}

\* C11: over a table whose pointer to the bucket array is null, whatever
\* num_bins holds, iteration is empty and no call reads through the
\* bucket array.
C11_NullBins ==
    (name_table # NULL /\ table.bins_ptr = NULL) =>
        \A i \in Slots :
            /\ hist[i].ret \in {"fresh", "None"}
            /\ hist[i].out = <<>>
            /\ BinsRead(i) = {}
            /\ ~hist[i].ub

\* C12: iteration is finite.  One call examines at most num_bins bucket
\* heads; every call on an iterator that has not returned end-of-sequence
\* either yields one more pair or returns end-of-sequence; an iterator
\* never holds more than num_entries pairs and holds exactly num_entries
\* when it returns end-of-sequence.  So a caller that keeps calling gets
\* num_entries pairs and then end-of-sequence.
C12_Finite ==
    /\ [](\A i \in Slots :
             /\ Len(hist[i].out) <= table.num_entries
             /\ Exhausted(i) => Len(hist[i].out) = table.num_entries)
    /\ [][\A i \in Slots : (iters[i].live /\ iters'[i].live) =>
             /\ Cardinality({r \in hist'[i].reads : r[1] = "bins"}
                            \ {r \in hist[i].reads : r[1] = "bins"})
                    <= (IF table.num_bins > 0 THEN table.num_bins ELSE 0)
             /\ (hist'[i] # hist[i] \/ iters'[i] # iters[i]) =>
                    \/ /\ hist'[i].ret = "Some"
                       /\ Len(hist'[i].out) = Len(hist[i].out) + 1
                    \/ /\ hist'[i].ret = "None"
                       /\ hist'[i].out = hist[i].out]_vars

\* an iterator that returned end-of-sequence after both entries of a table
\* of three buckets, each head examined once: the first call examined all
\* three, as the entries share the last bucket
C12_Witness ==
    \E i \in Slots :
        /\ Exhausted(i)
        /\ Len(hist[i].out) = 2
        /\ Cardinality(BinsRead(i)) = 3
        /\ table.bins[0] = NULL
        /\ table.bins[1] = NULL

\* C13: a call made while a chain pointer is pending yields exactly the
\* pending entry, leaves bin_idx as it is, reads no bucket head and leaves
\* the next link of that entry (null at the tail) pending.
C13_Pending ==
    [][\A i \in Slots :
          (/\ iters[i].live /\ iters'[i].live
           /\ iters[i].entry_ptr # NULL
           /\ (hist'[i] # hist[i] \/ iters'[i] # iters[i])) =>
              /\ hist'[i].ret = "Some"
              /\ Len(hist'[i].out) = Len(hist[i].out) + 1
              /\ hist'[i].out[Len(hist'[i].out)].entry = iters[i].entry_ptr
              /\ \A k \in 1..Len(hist[i].out) : hist'[i].out[k] = hist[i].out[k]
              /\ iters'[i].bin_idx = iters[i].bin_idx
              /\ {r \in hist'[i].reads : r[1] \in {"bins", "num_bins"}}
                     = {r \in hist[i].reads : r[1] \in {"bins", "num_bins"}}
              /\ iters[i].entry_ptr \in DOMAIN entries
              /\ iters'[i].entry_ptr = entries[iters[i].entry_ptr].next]_vars

\* the state before such a call, a pointer to the second entry of a chain
\* pending after the head was yielded, and the state after it, both entries
\* yielded with bin_idx still on their bucket and nothing pending
C13_Witness ==
    \E i, j \in Slots :
        /\ Len(hist[i].out) = 1
        /\ iters[i].entry_ptr # NULL
        /\ iters[i].entry_ptr = entries[hist[i].out[1].entry].next
        /\ Len(hist[j].out) = 2
        /\ hist[j].out[2].entry = iters[i].entry_ptr
        /\ hist[j].ret = "Some"
        /\ iters[j].bin_idx = iters[i].bin_idx
        /\ iters[j].entry_ptr = NULL

\* the non-empty buckets that lie after the bucket index of iterator i
BucketsAhead(i) ==
    IF iters[i].table = NULL THEN {}
    ELSE {b \in DOMAIN table.bins : b > iters[i].bin_idx /\ table.bins[b] # NULL}
Least(S) == CHOOSE b \in S : \A c \in S : b <= c

\* C14: a call made with no chain pointer pending passes, in that one call,
\* over the empty buckets after the bucket index and yields the head of the
\* first non-empty bucket; it returns end-of-sequence only when no
\* non-empty bucket is left, so an iterator that returned end-of-sequence
\* has no entry left to yield.
C14_SkipsEmpty ==
    /\ [][\A i \in Slots :
             (/\ iters[i].live /\ iters'[i].live
              /\ iters[i].entry_ptr = NULL
              /\ (hist'[i] # hist[i] \/ iters'[i] # iters[i])) =>
                 IF BucketsAhead(i) = {}
                 THEN /\ hist'[i].ret = "None"
                      /\ hist'[i].out = hist[i].out
                 ELSE /\ hist'[i].ret = "Some"
                      /\ Len(hist'[i].out) = Len(hist[i].out) + 1
                      /\ hist'[i].out[Len(hist'[i].out)].entry
                             = table.bins[Least(BucketsAhead(i))]
                      /\ iters'[i].bin_idx = Least(BucketsAhead(i))
                      /\ {r \in hist'[i].reads \ hist[i].reads : r[1] = "bins"}
                             = {<<"bins", b>> :
                                   b \in (iters[i].bin_idx + 1)..Least(BucketsAhead(i))}]_vars
    /\ [](\A i \in Slots :
             Exhausted(i) => (BucketsAhead(i) = {} /\ iters[i].entry_ptr = NULL
                              /\ YieldedSet(i) = ReachableEntries))

\* the first call of an iterator passed over two empty buckets and yielded
\* the head of the third
C14_Witness ==
    \E i \in Slots :
        /\ hist[i].ret = "Some"
        /\ Len(hist[i].out) = 1
        /\ iters[i].bin_idx = 2
        /\ table.bins[0] = NULL
        /\ table.bins[1] = NULL
        /\ hist[i].out[1].entry = table.bins[2]

\* c_int is a signed 32-bit integer
I32Max == 2147483647
Max0(n) == IF n > 0 THEN n ELSE 0

\* C15: over a present table with bucket count N the bucket index stays
\* within -1 .. max(N, 0) - 1, every read of the bucket array uses an index
\* in [0, N), and bin_idx + 1 stays within the signed 32-bit range; with
\* N <= 0 no bucket is read and the iterator yields nothing: its first
\* call returns end-of-sequence.
C15_IndexInRange ==
    \A i \in Slots :
        (iters[i].live /\ iters[i].table # NULL) =>
            /\ -1 <= iters[i].bin_idx
            /\ iters[i].bin_idx <= Max0(table.num_bins) - 1
            /\ \A r \in BinsRead(i) : 0 <= r[2] /\ r[2] < table.num_bins
            /\ iters[i].bin_idx + 1 <= I32Max
            /\ table.num_bins <= 0 =>
                   /\ BinsRead(i) = {}
                   /\ hist[i].out = <<>>
                   /\ hist[i].ret \in {"fresh", "None"}

\* an iterator over a present table with a negative bucket count was asked
\* for an element and returned end-of-sequence without leaving its start
C15_Witness ==
    \E i \in Slots :
        /\ iters[i].table # NULL
        /\ table.num_bins < 0
        /\ Exhausted(i)
        /\ <<"num_bins", 0>> \in hist[i].reads
        /\ iters[i].bin_idx = -1

\* the entries on the chain of bucket b
ChainSet(b) ==
    {ChainFrom(table.bins[b])[k] : k \in 1..Len(ChainFrom(table.bins[b]))}

\* C16: a non-null pending chain pointer is an entry on the chain of the
\* bucket at the bucket index, which is then >= 0; the entries an iterator
\* has yielded are the entries of the buckets below the bucket index and
\* the entries of the current bucket before the pending pointer, or all of
\* the current bucket when no pointer is pending.
C16_Position ==
    \A i \in Slots :
        iters[i].live =>
            LET p == iters[i].entry_ptr
                b == iters[i].bin_idx
                below == UNION {ChainSet(c) : c \in {c \in DOMAIN table.bins : c < b}}
            IN  /\ p # NULL =>
                       /\ b >= 0
                       /\ b \in DOMAIN table.bins
                       /\ p \in ChainSet(b)
                /\ YieldedSet(i) =
                       below \cup
                       (IF p # NULL
                        THEN {e \in ChainSet(b) : ChainPos(e) < ChainPos(p)}
                        ELSE IF b \in DOMAIN table.bins THEN ChainSet(b) ELSE {})

\* an iterator stands in the middle of the chain of a bucket behind an
\* empty first bucket: it has yielded the head and the second entry is
\* pending
C16_Witness ==
    \E i \in Slots :
        /\ iters[i].live
        /\ iters[i].entry_ptr # NULL
        /\ iters[i].bin_idx >= 1
        /\ Len(hist[i].out) = 1
        /\ hist[i].out[1].entry = table.bins[iters[i].bin_idx]
        /\ iters[i].entry_ptr = entries[table.bins[iters[i].bin_idx]].next

\* a step in which iterator i returned from a call to next
Called(i) ==
    /\ iters[i].live /\ iters'[i].live
    /\ (hist'[i] # hist[i] \/ iters'[i] # iters[i])

\* the bucket index never decreases and moves by one per bucket head read
IndexFollowsReads(i) ==
    (iters[i].live /\ iters'[i].live) =>
        /\ iters'[i].bin_idx >= iters[i].bin_idx
        /\ {r \in hist'[i].reads \ hist[i].reads : r[1] = "bins"}
               = {<<"bins", b>> : b \in (iters[i].bin_idx + 1)..iters'[i].bin_idx}

\* C17 as stated: the bucket index never decreases and moves by one per
\* bucket head read, and a call that returns end-of-sequence leaves the
\* bucket index and the pending chain pointer unchanged.
C17_NoneKeepsCursor ==
    [][\A i \in Slots :
          /\ IndexFollowsReads(i)
          /\ (Called(i) /\ hist'[i].ret = "None") =>
                 /\ iters'[i].bin_idx = iters[i].bin_idx
                 /\ iters'[i].entry_ptr = iters[i].entry_ptr]_vars

\* C17, amended: the bucket index never decreases and moves by one per
\* bucket head read; a call that returns end-of-sequence starts and ends
\* with no pointer pending and moves the bucket index only over empty
\* buckets, to the last bucket max(N, 0) - 1 and never past it; the index
\* stays where it is when it is already there or the table is absent.
C17_ForwardOnly ==
    [][\A i \in Slots :
          /\ IndexFollowsReads(i)
          /\ (Called(i) /\ hist'[i].ret = "None") =>
                 /\ iters[i].entry_ptr = NULL
                 /\ iters'[i].entry_ptr = NULL
                 /\ \A b \in (iters[i].bin_idx + 1)..iters'[i].bin_idx :
                        b \in DOMAIN table.bins /\ table.bins[b] = NULL
                 /\ iters'[i].bin_idx =
                        (IF iters[i].table = NULL THEN iters[i].bin_idx
                         ELSE Max0(table.num_bins) - 1)]_vars

\* an iterator yielded the one entry of the first bucket and then returned
\* end-of-sequence with its index on the third bucket: the call that ended
\* the sequence moved the index over two trailing empty buckets
C17_Witness ==
    \E i \in Slots :
        /\ Exhausted(i)
        /\ iters[i].bin_idx = 2
        /\ iters[i].entry_ptr = NULL
        /\ Len(hist[i].out) = 1
        /\ hist[i].out[1].entry = table.bins[0]
        /\ table.bins[1] = NULL
        /\ table.bins[2] = NULL

====
